---- MODULE Spec2Model ----
(***************************************************************************)
(* A model of scripts/analyze_population.py: the batch enrichment pipeline *)
(* of the NZ 250m population grid report (chunking, cached reverse         *)
(* geocoding, text generation with fallbacks, output sanitising, score     *)
(* extraction, and the batch loop that accumulates the per-chunk records). *)
(*                                                                         *)
(* Text is a sequence of tokens [c |-> tag, n |-> length in characters].   *)
(* A token with n = 1 and a one-character tag is that character. A token   *)
(* with a longer tag stands for the first n characters of a run of text    *)
(* that holds no digit, no quote, no backslash and no line break and that  *)
(* is not all white space; the code never looks inside such a run, it only *)
(* counts or cuts it.                                                      *)
(***************************************************************************)
EXTENDS Integers, Sequences, FiniteSets, TLC

VARIABLES
    pc,                 \* position of the script: which statement runs next
    grid,               \* the GeoDataFrame: [columns, crs, rows], or NoFrame
    chunks,             \* the list returned by split_dataframe
    i,                  \* the loop index of `for i, chunk in enumerate(chunks)`
    loc,                \* the loop body's local names for the current chunk
    cache,              \* the module-level geocode cache: a function from keys to labels
    reports,            \* list of (i+1, placename, content)
    policy_suggestions, \* list of (i+1, placename, policy_content)
    chunk_populations,  \* list of {'Placename', 'Population'}
    chunk_livability,   \* list of {'Placename', 'Livability'}
    ollama_ok,          \* _OLLAMA_OK, fixed when the module is imported
    events,             \* what the run has done so far: network calls, sleeps
    faults,             \* how many external calls have answered off-nominal
    unit                \* a single call of one function, for the function-level checks

pipeVars == <<pc, grid, chunks, i, loc, cache, reports, policy_suggestions,
              chunk_populations, chunk_livability, ollama_ok, events, faults>>
vars == <<pc, grid, chunks, i, loc, cache, reports, policy_suggestions,
          chunk_populations, chunk_livability, ollama_ok, events, faults, unit>>

----------------------------------------------------------------------------
(* Bounds of the model *)

\* rows of a dataset
MaxRows == 5
\* largest chunk_size tried on split_dataframe in isolation
MaxChunkSize == 3
\* pieces of a text handed to clean_llm_output in isolation
MaxPieces == 5
\* pieces of a livability answer handed to the score extraction in isolation
MaxScorePieces == 6
\* lines of a prompt handed to generate_text in isolation
MaxLines == 2
\* calls of get_placename_from_coords made in isolation
MaxCalls == 3
\* the chunk size of the run, standing for the 10000 of line 122
ChunkSize == 2
\* external calls of one run (coordinate transform, geocoding, text
\* generation) that answer otherwise than the service normally does
MaxFaults == 1

----------------------------------------------------------------------------
(* Generic helpers *)

Min(a, b) == IF a < b THEN a ELSE b

Max(a, b) == IF a > b THEN a ELSE b

\* all sequences over S of length at most n
SeqsUpTo(S, n) == UNION {[1..m -> S] : m \in 0..n}

RECURSIVE Flatten(_)
Flatten(ss) == IF ss = <<>> THEN <<>> ELSE Head(ss) \o Flatten(Tail(ss))

None == [none |-> TRUE]

\* the elements of a sequence
Range0(seq) == {seq[j] : j \in 1..Len(seq)}

\* the state of the variables a specification does not use
NoUnit == [fn |-> "none"]

----------------------------------------------------------------------------
(* The dataset. A row keeps its DataFrame index label (idx), whether its    *)
(* CENTROID_X / CENTROID_Y are numbers or NaN, and its PopEst2023.          *)

NaN == "NaN"

Num == "num"

RowValues ==
    { [x |-> Num, y |-> Num, pop |-> 1],
      [x |-> NaN, y |-> Num, pop |-> 2] }

Row(idx, v) == [idx |-> idx, x |-> v.x, y |-> v.y, pop |-> v.pop]

\* the ordered datasets of at most n rows; index labels are 1, 2, ...
Datasets(n) ==
    { [j \in 1..Len(vs) |-> Row(j, vs[j])] : vs \in SeqsUpTo(RowValues, n) }

----------------------------------------------------------------------------
(* split_dataframe *)

\* math.ceil(a / b) for a >= 0, b > 0
MathCeilDivFloor(a, b) == a \div b

MathCeilDiv(a, b) == IF a % b = 0 THEN a \div b ELSE (a \div b) + 1

\* df.iloc[lo:hi] for 0 <= lo <= hi: a Python slice, clipped to the frame
Iloc(df, lo, hi) == SubSeq(df, lo + 1, Min(hi, Len(df)))

SplitDataframe(df, chunk_size) ==
    LET num_chunks == MathCeilDiv(Len(df), chunk_size)
    IN  [c \in 1..num_chunks |-> Iloc(df, (c - 1) * chunk_size, c * chunk_size)]

----------------------------------------------------------------------------
(* Text *)

Ch(c) == [c |-> c, n |-> 1]

W(tag, n) == [c |-> tag, n |-> n]

DQ == Ch("\"")

SQ == Ch("'")

BS == Ch("\\")

LF == Ch("\n")

SP == Ch(" ")

\* a character outside ASCII, U+0101 (a with macron, as in a Maori place name)
NonAscii == Ch("U+0101")

\* the two Latin-1 characters its UTF-8 bytes 0xC4 0x81 read as
Latin1OfNonAscii == <<Ch("U+00C4"), Ch("U+0081")>>

\* the pieces of the wrapper that str() of a chat response object prints
ContentEq == W("content=", 8)

ThinkingNone == W(", thinking=None", 15)

Digits == {"0", "1", "2", "3", "4", "5", "6", "7", "8", "9"}

IsDigit(t) == t.n = 1 /\ t.c \in Digits

IsSpace(t) == t.n = 1 /\ t.c \in {" ", "\n", "\t"}

DigitVal(c) ==
    CASE c = "0" -> 0 [] c = "1" -> 1 [] c = "2" -> 2 [] c = "3" -> 3
      [] c = "4" -> 4 [] c = "5" -> 5 [] c = "6" -> 6 [] c = "7" -> 7
      [] c = "8" -> 8 [] c = "9" -> 9

\* len(s), in characters
RECURSIVE StrLen(_)
StrLen(s) == IF s = <<>> THEN 0 ELSE Head(s).n + StrLen(Tail(s))

\* s[:k]: the first k characters
RECURSIVE SliceTo(_, _)
SliceTo(s, k) ==
    IF s = <<>> \/ k <= 0 THEN <<>>
    ELSE IF Head(s).n <= k THEN <<Head(s)>> \o SliceTo(Tail(s), k - Head(s).n)
    ELSE <<[c |-> Head(s).c, n |-> k]>>

\* whether sub occurs in s at token position p (1-based)
MatchAt(s, sub, p) ==
    /\ p >= 1
    /\ p + Len(sub) - 1 <= Len(s)
    /\ SubSeq(s, p, p + Len(sub) - 1) = sub

\* `sub in s`
Contains(s, sub) == \E p \in 1..Len(s) : MatchAt(s, sub, p)

\* s.find(sub): the first position of sub in s (1-based), 0 for Python's -1
Find(s, sub) ==
    IF Contains(s, sub)
    THEN CHOOSE p \in 1..Len(s) :
            MatchAt(s, sub, p) /\ \A q \in 1..(p - 1) : ~MatchAt(s, sub, q)
    ELSE 0

\* s.rfind(sub, start): the last position of sub at or after start, 0 for -1
RFind(s, sub, start) ==
    LET hits == {p \in start..Len(s) : MatchAt(s, sub, p)}
    IN  IF hits = {} THEN 0
        ELSE CHOOSE p \in hits : \A q \in hits : q <= p

\* s.splitlines(): the lines of s, a final line break opening no empty line
RECURSIVE SplitLines(_)
SplitLines(s) ==
    IF s = <<>> THEN <<>>
    ELSE LET p == Find(s, <<LF>>)
         IN  IF p = 0 THEN <<s>>
             ELSE <<SubSeq(s, 1, p - 1)>> \o SplitLines(SubSeq(s, p + 1, Len(s)))

\* bool(ln.strip()): the line holds a character that is not white space
StripNonEmpty(ln) == \E j \in 1..Len(ln) : ~IsSpace(ln[j])

----------------------------------------------------------------------------
(* Exceptions: a value [type, msg]; `except T` catches the subclasses of T *)

ExceptionBases(type) ==
    CASE type = "requests.ConnectionError" ->
            {"requests.ConnectionError", "requests.RequestException", "OSError", "Exception"}
      [] type = "requests.Timeout" ->
            {"requests.Timeout", "requests.RequestException", "OSError", "Exception"}
      [] type = "requests.HTTPError" ->
            {"requests.HTTPError", "requests.RequestException", "OSError", "Exception"}
      [] type = "requests.JSONDecodeError" ->
            {"requests.JSONDecodeError", "requests.RequestException", "ValueError",
             "OSError", "Exception"}
      [] type = "json.JSONDecodeError" ->
            {"json.JSONDecodeError", "ValueError", "Exception"}
      [] type = "AttributeError" -> {"AttributeError", "Exception"}
      [] type = "ollama.ResponseError" -> {"ollama.ResponseError", "Exception"}
      [] type = "ConnectionError" -> {"ConnectionError", "OSError", "Exception"}
      [] type = "UnicodeDecodeError" ->
            {"UnicodeDecodeError", "UnicodeError", "ValueError", "Exception"}
      [] OTHER -> {type, "Exception"}

Catches(handler, exc) == handler \in ExceptionBases(exc.type)

Exc(type, msg) == [type |-> type, msg |-> msg]

----------------------------------------------------------------------------
(* clean_llm_output *)

\* codecs.decode(content, 'unicode_escape') of a str: Python hands the codec
\* the UTF-8 bytes of the str. A backslash starts an escape; every other byte
\* becomes the Latin-1 character of that byte, so an ASCII character stays
\* and a character outside ASCII comes back as one character per byte.
\* With keep_non_ascii the characters outside ASCII would be kept instead.
\* The result is [ok, val]; ok = FALSE is a UnicodeDecodeError.
RECURSIVE DecodeEscapes(_, _)
DecodeEscapes(s, keep_non_ascii) ==
    IF s = <<>> THEN [ok |-> TRUE, val |-> <<>>]
    ELSE LET h == Head(s)
             prepend(ts, rest) ==
                 LET r == DecodeEscapes(rest, keep_non_ascii)
                 IN  IF r.ok THEN [ok |-> TRUE, val |-> ts \o r.val] ELSE r
         IN  IF h = BS
             THEN IF Len(s) = 1
                  THEN [ok |-> FALSE, val |-> <<>>]      \* "\ at end of string"
                  ELSE LET e == s[2]
                           rest == SubSeq(s, 3, Len(s))
                       IN  CASE e = Ch("n") -> prepend(<<LF>>, rest)
                             [] e = Ch("t") -> prepend(<<Ch("\t")>>, rest)
                             [] e = BS -> prepend(<<BS>>, rest)
                             [] e = DQ -> prepend(<<DQ>>, rest)
                             [] e = SQ -> prepend(<<SQ>>, rest)
                             \* \x, \u, \U and \N need hexadecimal digits or a
                             \* name after them: the texts of this model put
                             \* none there ("truncated \xXX escape"), and they
                             \* put no octal digit after a backslash
                             [] e \in {Ch("x"), Ch("u"), Ch("U"), Ch("N")} ->
                                    [ok |-> FALSE, val |-> <<>>]
                             \* an unknown escape stays as it is written
                             [] OTHER -> prepend(<<BS>>, SubSeq(s, 2, Len(s)))
             ELSE IF h = NonAscii /\ ~keep_non_ascii
             THEN prepend(Latin1OfNonAscii, Tail(s))
             ELSE prepend(<<h>>, Tail(s))

UnicodeEscapeDecode(content) == DecodeEscapes(content, FALSE)

QuoteChars == <<DQ, SQ>>

\* one turn of `for quote_char in ['"', "'"]`: [returned, val]
CleanWithQuote(text, quote_char) ==
    LET pattern == <<ContentEq, quote_char>>
    IN  IF ~Contains(text, pattern) THEN [returned |-> FALSE, val |-> <<>>]
        ELSE LET start == Find(text, pattern) + Len(pattern)
                 end_marker == <<quote_char, ThinkingNone>>
                 end == RFind(text, end_marker, start)
             IN  IF end = 0 THEN [returned |-> FALSE, val |-> <<>>]
                 ELSE LET dec == UnicodeEscapeDecode(SubSeq(text, start, end - 1))
                      IN  IF dec.ok THEN [returned |-> TRUE, val |-> dec.val]
                          \* except Exception: continue
                          ELSE [returned |-> FALSE, val |-> <<>>]

CleanLlmOutput(text) ==
    LET first == CleanWithQuote(text, QuoteChars[1])
        second == CleanWithQuote(text, QuoteChars[2])
    IN  IF first.returned THEN first.val
        ELSE IF second.returned THEN second.val
        ELSE text

----------------------------------------------------------------------------
(* The livability score: lines 182-199 of the batch loop *)

\* re.findall(r'\d+', text): the maximal digit runs, left to right
RECURSIVE FindAllDigitRuns(_)
FindAllDigitRuns(text) ==
    IF text = <<>> THEN <<>>
    ELSE IF ~IsDigit(Head(text)) THEN FindAllDigitRuns(Tail(text))
    ELSE LET stops == {j \in 1..Len(text) : ~IsDigit(text[j])}
             e == IF stops = {} THEN Len(text)
                  ELSE (CHOOSE j \in stops : \A q \in stops : j <= q) - 1
         IN  <<SubSeq(text, 1, e)>> \o FindAllDigitRuns(SubSeq(text, e + 1, Len(text)))

\* int(num_str) of a digit run
RECURSIVE IntOf(_)
IntOf(run) ==
    IF run = <<>> THEN 0
    ELSE 10 * IntOf(SubSeq(run, 1, Len(run) - 1)) + DigitVal(run[Len(run)].c)

DefaultScore == 50

ScoreLow == 1

ScoreHigh == 100

ScoreInRangeExclusive(num) == ScoreLow <= num /\ num < ScoreHigh

ScoreInRange(num) == ScoreLow <= num /\ num <= ScoreHigh

\* the for loop with its break: the first run whose value is in range
ExtractScore(cleaned_score_text) ==
    LET potential_scores == FindAllDigitRuns(cleaned_score_text)
        valid == {j \in 1..Len(potential_scores) :
                    ScoreInRange(IntOf(potential_scores[j]))}
    IN  IF valid = {} THEN DefaultScore
        ELSE IntOf(potential_scores[CHOOSE j \in valid : \A q \in valid : j <= q])

----------------------------------------------------------------------------
(* generate_text *)

StubLimit == 200

LlmDisabledPrefix == W("[LLM disabled] ", 15)

Ellipsis == W("...", 3)

ErrorMarkerPrefix == W("[Error generating text: ", 24)

\* next((ln for ln in prompt.splitlines() if ln.strip()), "")
FirstNonBlankLine(prompt) ==
    LET lines == SplitLines(prompt)
        full == {j \in 1..Len(lines) : StripNonEmpty(lines[j])}
    IN  IF full = {} THEN <<>>
        ELSE lines[CHOOSE j \in full : \A q \in full : j <= q]

StubEllipsisAtLimit(first_line) ==
    IF StrLen(first_line) >= StubLimit THEN <<Ellipsis>> ELSE <<>>

StubEllipsis(first_line) ==
    IF StrLen(first_line) > StubLimit THEN <<Ellipsis>> ELSE <<>>

\* line 94, the value returned when _OLLAMA_OK is false
DisabledStub(prompt) ==
    LET first_line == FirstNonBlankLine(prompt)
    IN  <<LlmDisabledPrefix>> \o SliceTo(first_line, StubLimit) \o StubEllipsis(first_line)

\* what `except Exception` of generate_text catches
GenerateTextCatchesResponseErrorOnly(exc) == Catches("ollama.ResponseError", exc)

GenerateTextCatches(exc) == Catches("Exception", exc)

\* What ollama.chat did: it raised exc, or it returned resp.
\* resp = [shape, has_content, content, str]: shape "dict_message" is a dict
\* whose 'message' is a dict (with or without 'content'), any other shape is a
\* dict without such a message or an object that is no dict; str is str(resp).
\* The result is [raised, exc, val].
GenerateText(prompt, ok, call) ==
    IF ~ok THEN [raised |-> FALSE, exc |-> None, val |-> DisabledStub(prompt)]
    ELSE IF call.raises
    THEN IF GenerateTextCatches(call.exc)
         THEN [raised |-> FALSE, exc |-> None,
               val |-> <<ErrorMarkerPrefix>> \o call.exc.msg \o <<Ch("]")>>]
         ELSE [raised |-> TRUE, exc |-> call.exc, val |-> <<>>]
    ELSE IF call.resp.shape = "dict_message"
    THEN [raised |-> FALSE, exc |-> None,
          val |-> IF call.resp.has_content THEN call.resp.content ELSE call.resp.str]
    ELSE [raised |-> FALSE, exc |-> None, val |-> call.resp.str]

ChatRaises(exc) == [raises |-> TRUE, exc |-> exc, resp |-> None]

ChatReturns(resp) == [raises |-> FALSE, exc |-> None, resp |-> resp]

Resp(shape, has_content, content, str) ==
    [shape |-> shape, has_content |-> has_content, content |-> content, str |-> str]

----------------------------------------------------------------------------
(* get_placename_from_coords.                                               *)
(* A coordinate is an integer count of 0.0001 degrees. The coordinates of   *)
(* the model lie on no rounding tie (no ...5 in the fourth decimal for      *)
(* round(v, 3), no ..50 for {v:.2f}), so the nearest value is the result    *)
(* whatever the binary representation of the float.                         *)

\* round(v, 3), as a count of 0.001 degrees
Round3(v) == (v + 5) \div 10

GeoKeyUnrounded(lon, lat) == <<lon, lat>>

GeoKey(lon, lat) == <<Round3(lon), Round3(lat)>>

DigitChar(d) ==
    CASE d = 0 -> "0" [] d = 1 -> "1" [] d = 2 -> "2" [] d = 3 -> "3"
      [] d = 4 -> "4" [] d = 5 -> "5" [] d = 6 -> "6" [] d = 7 -> "7"
      [] d = 8 -> "8" [] d = 9 -> "9"

\* str(n) for n >= 0
RECURSIVE DecimalDigits(_)
DecimalDigits(n) ==
    IF n < 10 THEN <<Ch(DigitChar(n))>>
    ELSE DecimalDigits(n \div 10) \o <<Ch(DigitChar(n % 10))>>

\* f"{v:.2f}"
Fmt2(v) ==
    LET h == (v + 50) \div 100
        a == IF h < 0 THEN 0 - h ELSE h
    IN  (IF h < 0 THEN <<Ch("-")>> ELSE <<>>)
        \o DecimalDigits(a \div 100) \o <<Ch(".")>>
        \o <<Ch(DigitChar((a \div 10) % 10)), Ch(DigitChar(a % 10))>>

ErrorRegionLonLat(lon, lat) ==
    <<W("Error Region (", 14)>> \o Fmt2(lon) \o <<Ch(",")>> \o Fmt2(lat) \o <<Ch(")")>>

UnknownRegion(lon, lat) ==
    <<W("Unknown Region (", 16)>> \o Fmt2(lat) \o <<Ch(",")>> \o Fmt2(lon) \o <<Ch(")")>>

ErrorRegion(lon, lat) ==
    <<W("Error Region (", 14)>> \o Fmt2(lat) \o <<Ch(",")>> \o Fmt2(lon) \o <<Ch(")")>>

AddressKeys == <<"city", "town", "village", "suburb", "county", "state", "country">>

\* A JSON value of the response: [t |-> "null"], [t |-> "str", v |-> text],
\* [t |-> "list"], or [t |-> "dict", v |-> function from keys to JSON values].
JNull == [t |-> "null"]

JStr(text) == [t |-> "str", v |-> text]

JList == [t |-> "list"]

JDict(f) == [t |-> "dict", v |-> f]

\* bool(x) of a JSON value or of a text
Truthy(j) == (j.t = "dict" /\ DOMAIN j.v # {}) \/ (j.t = "str" /\ j.v # <<>>)

\* d.get(k, default) on a dict
DictGet(d, k, default) == IF k \in DOMAIN d.v THEN d.v[k] ELSE default

\* text.split(',')[0]
SplitCommaFirst(text) ==
    LET p == Find(text, <<Ch(",")>>)
    IN  IF p = 0 THEN text ELSE SubSeq(text, 1, p - 1)

\* lines 75-81: [raised, exc, val]. x.get on a value that is no dict, and
\* x.split on one that is no str, raise AttributeError.
RECURSIVE FirstTruthyAddr(_, _)
FirstTruthyAddr(addr, j) ==
    IF j > Len(AddressKeys) THEN JNull
    ELSE LET v == DictGet(addr, AddressKeys[j], JNull)
         IN  IF Truthy(v) THEN v ELSE FirstTruthyAddr(addr, j + 1)

NoGetAttr == Exc("AttributeError", <<W("object has no attribute", 23)>>)

PlacenameOf(data, lon, lat) ==
    IF data.t # "dict" THEN [raised |-> TRUE, exc |-> NoGetAttr, val |-> <<>>]
    ELSE LET addr == DictGet(data, "address", JDict(<<>>))
         IN  IF addr.t # "dict" THEN [raised |-> TRUE, exc |-> NoGetAttr, val |-> <<>>]
             ELSE LET hit == FirstTruthyAddr(addr, 1)
                  IN  IF Truthy(hit)
                      THEN [raised |-> FALSE, exc |-> None, val |-> hit.v]
                      ELSE LET dn == DictGet(data, "display_name", JStr(<<>>))
                           IN  IF dn.t # "str"
                               THEN [raised |-> TRUE, exc |-> NoGetAttr, val |-> <<>>]
                               ELSE LET first == SplitCommaFirst(dn.v)
                                    IN  [raised |-> FALSE, exc |-> None,
                                         val |-> IF first # <<>> THEN first
                                                 ELSE UnknownRegion(lon, lat)]

\* What the HTTP exchange did: requests.get raised exc (a transport failure),
\* raise_for_status raised exc (an HTTP error status), resp.json() raised exc
\* (the body is no JSON), or the body parsed to the JSON value data.
NetRaises(at, exc) == [at |-> at, exc |-> exc, data |-> JNull]

NetBody(data) == [at |-> "none", exc |-> None, data |-> data]

\* what `except requests.exceptions.RequestException` catches
GeocodeCatchesAll(exc) == Catches("Exception", exc)

GeocodeCatches(exc) == Catches("requests.RequestException", exc)

\* cache[key] = placename
CacheStoreNothing(c, key, placename) == c

CacheStore(c, key, placename) == (key :> placename) @@ c

\* lines 72-86, the try block with its except clause: [raised, exc, val, cache, ev].
\* ev lists, in order, what the call did that the outside can see.
TryRequest(lon, lat, c, net) ==
    LET key == GeoKey(lon, lat)
        request == <<[e |-> "request", key |-> key]>>
        body == IF net.at = "none" THEN PlacenameOf(net.data, lon, lat)
                ELSE [raised |-> TRUE, exc |-> net.exc, val |-> <<>>]
    IN  IF ~body.raised
        THEN [raised |-> FALSE, exc |-> None, val |-> body.val,
              cache |-> CacheStore(c, key, body.val), ev |-> request]
        ELSE IF GeocodeCatches(body.exc)
        THEN [raised |-> FALSE, exc |-> None, val |-> ErrorRegion(lon, lat), cache |-> c,
              ev |-> request \o <<[e |-> "print", what |-> "Error during Nominatim request"]>>]
        ELSE [raised |-> TRUE, exc |-> body.exc, val |-> <<>>, cache |-> c, ev |-> request]

\* lines 87-88, `finally: time.sleep(1.0)`: runs however the try block ended
FinallySleepUnlessRaised(r) ==
    IF r.raised THEN r ELSE [r EXCEPT !.ev = @ \o <<[e |-> "sleep", secs |-> 1]>>]

FinallySleep(r) == [r EXCEPT !.ev = @ \o <<[e |-> "sleep", secs |-> 1]>>]

\* The whole call. net is read only on a cache miss.
GetPlacenameFromCoords(lon, lat, c, net) ==
    LET key == GeoKey(lon, lat)
    IN  IF key \in DOMAIN c
        THEN [raised |-> FALSE, exc |-> None, val |-> c[key], cache |-> c, ev |-> <<>>]
        ELSE FinallySleep(TryRequest(lon, lat, c, net))

\* texts the services answer with
SomeAnswer == <<W("Population is concentrated", 26)>>

Wellington == <<W("Wellington", 10)>>

Levin == <<W("Levin", 5)>>

----------------------------------------------------------------------------
(* The variables of the script before it starts, for the specifications    *)
(* that call one function in isolation.                                     *)

NoFrame == [columns |-> {}, crs |-> "none", rows |-> <<>>]

PipeIdle ==
    /\ pc = "idle"
    /\ grid = NoFrame
    /\ chunks = <<>>
    /\ i = 0
    /\ loc = None
    /\ cache = <<>>
    /\ reports = <<>>
    /\ policy_suggestions = <<>>
    /\ chunk_populations = <<>>
    /\ chunk_livability = <<>>
    /\ ollama_ok = FALSE
    /\ events = <<>>
    /\ faults = 0

----------------------------------------------------------------------------
(* SpecSplit: split_dataframe called once on any dataset and chunk size *)

InitSplit ==
    /\ PipeIdle
    /\ \E df \in Datasets(MaxRows), k \in 1..MaxChunkSize :
          unit = [fn |-> "split_dataframe", df |-> df, chunk_size |-> k,
                  done |-> FALSE, ret |-> <<>>]

CallSplit ==
    /\ unit.fn = "split_dataframe"
    /\ ~unit.done
    /\ unit' = [unit EXCEPT !.done = TRUE,
                            !.ret = SplitDataframe(unit.df, unit.chunk_size)]
    /\ UNCHANGED pipeVars

NextSplit == CallSplit

SpecSplit == InitSplit /\ [][NextSplit]_vars

----------------------------------------------------------------------------
(* SpecClean: clean_llm_output called once on any text built from the      *)
(* pieces of the wrapper, escapes and a character outside ASCII            *)

CleanPieces ==
    { <<ContentEq, DQ>>, <<ContentEq, SQ>>, <<DQ, ThinkingNone>>, <<SQ, ThinkingNone>>,
      <<BS>>, <<Ch("n")>>, <<Ch("x")>>, <<NonAscii>> }

InitClean ==
    /\ PipeIdle
    /\ \E ps \in SeqsUpTo(CleanPieces, MaxPieces) :
          unit = [fn |-> "clean_llm_output", text |-> Flatten(ps),
                  done |-> FALSE, ret |-> <<>>]

CallClean ==
    /\ unit.fn = "clean_llm_output"
    /\ ~unit.done
    /\ unit' = [unit EXCEPT !.done = TRUE, !.ret = CleanLlmOutput(unit.text)]
    /\ UNCHANGED pipeVars

NextClean == CallClean

SpecClean == InitClean /\ [][NextClean]_vars

----------------------------------------------------------------------------
(* SpecScore: lines 181-199 run once on any livability answer *)

ScorePieces ==
    { <<Ch("0")>>, <<Ch("1")>>, <<Ch("7")>>, <<SP>>,
      <<ContentEq, DQ>>, <<DQ, ThinkingNone>> }

InitScore ==
    /\ PipeIdle
    /\ \E ps \in SeqsUpTo(ScorePieces, MaxScorePieces) :
          unit = [fn |-> "score", livability_score_text |-> Flatten(ps),
                  done |-> FALSE, cleaned_score_text |-> <<>>, score |-> DefaultScore]

CallScore ==
    /\ unit.fn = "score"
    /\ ~unit.done
    /\ LET cleaned == CleanLlmOutput(unit.livability_score_text)
       IN  unit' = [unit EXCEPT !.done = TRUE,
                                !.cleaned_score_text = cleaned,
                                !.score = ExtractScore(cleaned)]
    /\ UNCHANGED pipeVars

NextScore == CallScore

SpecScore == InitScore /\ [][NextScore]_vars

----------------------------------------------------------------------------
(* SpecGen: generate_text called once on any prompt, with the backend       *)
(* absent, failing or answering                                             *)

PromptLines ==
    { <<>>, <<SP>>, <<SP, Ch("a")>>,
      <<W("Based ONLY on", 199)>>, <<W("Based ONLY on", 200)>>,
      <<W("Based ONLY on", 201)>>, <<W("Based ONLY on", 199), Ch("7"), Ch("2")>> }

RECURSIVE JoinLines(_)
JoinLines(ls) ==
    IF ls = <<>> THEN <<>>
    ELSE IF Len(ls) = 1 THEN ls[1]
    ELSE ls[1] \o <<LF>> \o JoinLines(Tail(ls))

Prompts == { JoinLines(ls) : ls \in SeqsUpTo(PromptLines, MaxLines) }

SomeRepr == <<W("model='llama2' message=Message(role='assistant', ", 49), ContentEq, SQ>>
            \o SomeAnswer \o <<SQ, ThinkingNone, Ch(")")>>

ChatOutcomes ==
    { ChatRaises(Exc("ollama.ResponseError", <<W("model not found", 15)>>)),
      ChatRaises(Exc("ConnectionError", <<W("Failed to connect to Ollama", 27)>>)),
      ChatRaises(Exc("TimeoutError", <<W("timed out", 9)>>)),
      ChatReturns(Resp("dict_message", TRUE, SomeAnswer, SomeRepr)),
      ChatReturns(Resp("dict_message", FALSE, <<>>, SomeRepr)),
      ChatReturns(Resp("dict_other", FALSE, <<>>, SomeRepr)),
      ChatReturns(Resp("object", FALSE, <<>>, SomeRepr)) }

InitGen ==
    /\ PipeIdle
    /\ \E prompt \in Prompts :
          \/ unit = [fn |-> "generate_text", prompt |-> prompt, ok |-> FALSE,
                     call |-> None, done |-> FALSE, ret |-> None]
          \/ \E call \in ChatOutcomes :
                unit = [fn |-> "generate_text", prompt |-> prompt, ok |-> TRUE,
                        call |-> call, done |-> FALSE, ret |-> None]

CallGen ==
    /\ unit.fn = "generate_text"
    /\ ~unit.done
    /\ unit' = [unit EXCEPT !.done = TRUE,
                            !.ret = GenerateText(unit.prompt, unit.ok, unit.call)]
    /\ UNCHANGED pipeVars

NextGen == CallGen

SpecGen == InitGen /\ [][NextGen]_vars

----------------------------------------------------------------------------
(* SpecGeo: get_placename_from_coords called again and again on any         *)
(* coordinates, the service answering in any way; a call that raises ends   *)
(* the process. unit.calls keeps one record per call made.                  *)

\* two longitudes that round to one GeoKey and one that does not
Lons == {1747761, 1747764, 1752812}

Lats == {0 - 412866}

NetOutcomes ==
    { NetRaises("get", Exc("requests.ConnectionError", <<W("Max retries exceeded", 20)>>)),
      NetRaises("raise_for_status", Exc("requests.HTTPError", <<W("Server Error", 12)>>)),
      NetRaises("json", Exc("requests.JSONDecodeError", <<W("Expecting value", 15)>>)),
      NetRaises("json", Exc("json.JSONDecodeError", <<W("Expecting value", 15)>>)),
      NetBody(JList),
      NetBody(JDict("address" :> JNull)),
      NetBody(JDict("address" :> JDict("city" :> JStr(Wellington)))),
      NetBody(JDict("address" :> JDict(("town" :> JStr(Levin)) @@ ("city" :> JStr(<<>>))))),
      NetBody(JDict("error" :> JStr(<<W("Unable to geocode", 17)>>))) }

InitGeo ==
    /\ PipeIdle
    /\ unit = [fn |-> "get_placename_from_coords", calls |-> <<>>, dead |-> FALSE]

CallGeocode ==
    /\ unit.fn = "get_placename_from_coords"
    /\ ~unit.dead
    /\ Len(unit.calls) < MaxCalls
    /\ \E lon \in Lons, lat \in Lats, net \in NetOutcomes :
          LET hit == GeoKey(lon, lat) \in DOMAIN cache
              r == GetPlacenameFromCoords(lon, lat, cache, net)
          IN  \* on a hit the service is not asked: one outcome stands for all
              /\ hit => net = NetBody(JList)
              /\ cache' = r.cache
              /\ unit' = [unit EXCEPT
                    !.dead = r.raised,
                    !.calls = Append(@, [lon |-> lon, lat |-> lat,
                                         net |-> IF hit THEN NetBody(JNull) ELSE net,
                                         before |-> cache, after |-> r.cache,
                                         raised |-> r.raised, val |-> r.val, ev |-> r.ev])]
    /\ UNCHANGED <<pc, grid, chunks, i, loc, reports, policy_suggestions,
                   chunk_populations, chunk_livability, ollama_ok, events, faults>>

NextGeo == CallGeocode

SpecGeo == InitGeo /\ [][NextGeo]_vars

----------------------------------------------------------------------------
(* The script: loading, chunking, the batch loop, the assembly of the report *)

expected_cols == {"GridID", "PopEst2023", "geometry", "CENTROID_X", "CENTROID_Y"}

\* the column sets of a source file: all expected columns and one more, or
\* one expected column missing (gpd.read_file itself names the geometry column)
ColumnSets ==
    {expected_cols \cup {"OBJECTID"}}
    \cup {expected_cols \ {c} : c \in expected_cols \ {"geometry"}}

CrsValues == {"EPSG:2193", "EPSG:4326", "none"}

Printed(what) == [e |-> "print", what |-> what]

Raise(exc) == [e |-> "raise", type |-> exc.type]

Step(what, n) == [e |-> what, chunk |-> n]

\* line 131: print(f"--- Processing Chunk {i+1}/{len(chunks)} ...")
Processing(n) == [e |-> "print", what |-> "--- Processing Chunk", chunk |-> n]

\* chunk[col].mean(): NaN exactly when no row holds a number (NaN is skipped)
MeanIsNaN(chunk, col) ==
    IF col = "CENTROID_X" THEN \A j \in 1..Len(chunk) : chunk[j].x = NaN
    ELSE \A j \in 1..Len(chunk) : chunk[j].y = NaN

RECURSIVE SumPop(_)
SumPop(chunk) == IF chunk = <<>> THEN 0 ELSE Head(chunk).pop + SumPop(Tail(chunk))

MaxPop(chunk) == CHOOSE v \in {chunk[j].pop : j \in 1..Len(chunk)} :
                    \A j \in 1..Len(chunk) : chunk[j].pop <= v

MinPop(chunk) == CHOOSE v \in {chunk[j].pop : j \in 1..Len(chunk)} :
                    \A j \in 1..Len(chunk) : chunk[j].pop >= v

\* lines 156-157: the one-row summary as CSV, numbers printed with '%.2f'
CsvText(chunk) ==
    <<W("mean,sum,max,min", 16), LF>>
    \o Fmt2((SumPop(chunk) * 10000) \div Len(chunk)) \o <<Ch(",")>>
    \o Fmt2(SumPop(chunk) * 10000) \o <<Ch(",")>>
    \o Fmt2(MaxPop(chunk) * 10000) \o <<Ch(",")>>
    \o Fmt2(MinPop(chunk) * 10000) \o <<LF>>

\* f"{chunk_placename} (Chunk {i+1})"
ChunkId(chunk_placename, n) ==
    chunk_placename \o <<W(" (Chunk ", 8)>> \o DecimalDigits(n) \o <<Ch(")")>>

AnalysisPrompt(chunk_placename, csv_text) ==
    <<W("Based ONLY on the data provided in the CSV below for ", 53)>>
    \o chunk_placename
    \o <<W(", summarize the population trends and centers. Do not use any external knowledge or statistics.", 95),
         LF, W("CSV:", 4), LF>>
    \o csv_text

PolicyPrompt(chunk_placename, csv_text) ==
    <<W("Based ONLY on the demographic summary CSV provided for ", 55)>>
    \o chunk_placename
    \o <<W(", provide ", 10), Ch("3"), Ch("-"), Ch("5"),
         W(" detailed policy recommendations. For each, state the ", 54), SQ,
         W("Problem", 7), SQ, W(" and a ", 7), SQ, W("Specific Proposal", 17), SQ,
         W(". Do not use external knowledge.", 32), LF, W("CSV:", 4), LF>>
    \o csv_text

LivabilityPrompt(csv_text) ==
    <<W("Based ONLY on the summary statistics below for a region in New Zealand, rate its ", 81),
      SQ, W("livability", 10), SQ, W(" on a scale of ", 15), Ch("1"), W(" to ", 4),
      Ch("1"), Ch("0"), Ch("0"),
      W(". Consider factors like population density (mean) and size (sum). A good score might represent a place that is neither too crowded nor too sparse. Output ONLY a single integer number and nothing else.", 200),
      LF, W("CSV:", 4), LF>>
    \o csv_text

\* what the services normally answer, and the other answers of the model
NominalNet == NetBody(JDict("address" :> JDict("city" :> JStr(Wellington))))

ReprOf(content) ==
    <<W("model=", 6), SQ, W("llama", 5), Ch("2"), SQ,
      W(" message=Message(role=", 22), SQ, W("assistant", 9), SQ, Ch(","), SP,
      ContentEq, SQ>> \o content \o <<SQ, ThinkingNone, Ch(")")>>

NominalAnswer(kind) ==
    IF kind = "livability" THEN <<Ch("7"), Ch("2")>> ELSE SomeAnswer

NominalChat(kind) ==
    ChatReturns(Resp("dict_message", TRUE, NominalAnswer(kind), ReprOf(NominalAnswer(kind))))

OtherChats(kind) ==
    { ChatRaises(Exc("ConnectionError",
                     <<Ch("["), W("Errno ", 6), Ch("1"), Ch("1"), Ch("1"), Ch("]"),
                       W(" Connection refused", 19)>>)),
      ChatReturns(Resp("object", FALSE, <<>>, ReprOf(NominalAnswer(kind)))) }
    \cup (IF kind = "livability"
          THEN {ChatReturns(Resp("dict_message", TRUE, <<W("I cannot rate this.", 19)>>, <<>>))}
          ELSE {})

\* the answers open to an external call: the normal one, and any other while
\* the run has had fewer than MaxFaults of them
Answers(nominal, others) == {nominal} \cup (IF faults < MaxFaults THEN others ELSE {})

FaultsAfter(answer, nominal) == IF answer = nominal THEN faults ELSE faults + 1

Init ==
    /\ pc = "load"
    /\ grid = NoFrame
    /\ chunks = <<>>
    /\ i = 0
    /\ loc = None
    /\ cache = <<>>
    /\ reports = <<>>
    /\ policy_suggestions = <<>>
    /\ chunk_populations = <<>>
    /\ chunk_livability = <<>>
    /\ ollama_ok \in BOOLEAN
    /\ events = <<>>
    /\ faults = 0
    /\ unit = NoUnit

\* lines 38-43: read the file; on any exception report it and exit()
Load ==
    /\ pc = "load"
    /\ \/ /\ events' = Append(events, Printed("Error: Could not read GeoJSON file"))
          /\ pc' = "exited"
          /\ UNCHANGED grid
       \/ /\ \E cols \in ColumnSets, crs \in CrsValues, rows \in Datasets(MaxRows) :
                grid' = [columns |-> cols, crs |-> crs, rows |-> rows]
          /\ pc' = "filter"
          /\ UNCHANGED events
    /\ UNCHANGED <<chunks, i, loc, cache, reports, policy_suggestions,
                   chunk_populations, chunk_livability, ollama_ok, faults, unit>>

\* lines 46-48: keep the expected columns the frame has
FilterColumns ==
    /\ pc = "filter"
    /\ grid' = [grid EXCEPT !.columns = {c \in expected_cols : c \in grid.columns}]
    /\ pc' = "crs"
    /\ UNCHANGED <<chunks, i, loc, cache, reports, policy_suggestions,
                   chunk_populations, chunk_livability, ollama_ok, events, faults, unit>>

NeedsToCrsUnlessNone(crs) == crs # "none" /\ crs # "EPSG:2193"

\* line 51: grid.crs is None or grid.crs.to_epsg() != 2193
NeedsToCrs(crs) == crs = "none" \/ crs # "EPSG:2193"

\* lines 51-53: reproject unless the frame is in EPSG:2193; to_crs of a frame
\* without a CRS raises ValueError, which nothing catches
CheckCrs ==
    /\ pc = "crs"
    /\ IF ~NeedsToCrs(grid.crs)
       THEN /\ pc' = "split"
            /\ UNCHANGED <<grid, events>>
       ELSE IF grid.crs = "none"
       THEN /\ pc' = "crashed"
            /\ events' = events \o <<Printed("DEBUG: Reprojecting grid to EPSG:2193 (NZTM2000)"),
                                     Raise(Exc("ValueError", <<>>))>>
            /\ UNCHANGED grid
       ELSE /\ pc' = "split"
            /\ grid' = [grid EXCEPT !.crs = "EPSG:2193"]
            /\ events' = Append(events, Printed("DEBUG: Reprojecting grid to EPSG:2193 (NZTM2000)"))
    /\ UNCHANGED <<chunks, i, loc, cache, reports, policy_suggestions,
                   chunk_populations, chunk_livability, ollama_ok, faults, unit>>

\* lines 122-128: chunk the grid, start the four accumulators
Split ==
    /\ pc = "split"
    /\ chunks' = SplitDataframe(grid.rows, ChunkSize)
    /\ reports' = <<>>
    /\ policy_suggestions' = <<>>
    /\ chunk_populations' = <<>>
    /\ chunk_livability' = <<>>
    /\ i' = 0
    /\ events' = Append(events, [e |-> "split_dataframe", chunk_size |-> ChunkSize])
    /\ pc' = "loop"
    /\ UNCHANGED <<grid, loc, cache, ollama_ok, faults, unit>>

\* `continue`: on to the next chunk
Continue(why) ==
    /\ events' = events \o why
    /\ i' = i + 1
    /\ loc' = None
    /\ pc' = "loop"

\* lines 130-134: the loop header and the first check of the body
LoopHead ==
    /\ pc = "loop"
    /\ IF i >= Len(chunks)
       THEN /\ pc' = "assemble"
            /\ UNCHANGED <<i, loc, events>>
       ELSE IF chunks[i + 1] = <<>> \/ "CENTROID_X" \notin grid.columns
               \/ "CENTROID_Y" \notin grid.columns
       THEN Continue(<<Processing(i + 1),
                       Printed("Skipping empty or invalid chunk.")>>)
       ELSE /\ pc' = "centroid"
            /\ events' = Append(events, Processing(i + 1))
            /\ UNCHANGED <<i, loc>>
    /\ UNCHANGED <<grid, chunks, cache, reports, policy_suggestions,
                   chunk_populations, chunk_livability, ollama_ok, faults, unit>>

InvalidCentroidBoth(chunk) ==
    MeanIsNaN(chunk, "CENTROID_X") /\ MeanIsNaN(chunk, "CENTROID_Y")

\* line 139: pd.isna(chunk_centroid_x) or pd.isna(chunk_centroid_y)
InvalidCentroid(chunk) ==
    MeanIsNaN(chunk, "CENTROID_X") \/ MeanIsNaN(chunk, "CENTROID_Y")

\* lines 136-141: the mean centroid; a NaN mean skips the chunk
Centroid ==
    /\ pc = "centroid"
    /\ IF InvalidCentroid(chunks[i + 1])
       THEN Continue(<<Printed("Skipping chunk with invalid centroid.")>>)
       ELSE /\ pc' = "transform"
            /\ events' = Append(events, Step("centroid", i + 1))
            /\ UNCHANGED <<i, loc>>
    /\ UNCHANGED <<grid, chunks, cache, reports, policy_suggestions,
                   chunk_populations, chunk_livability, ollama_ok, faults, unit>>

\* lines 143-147: project the centroid to longitude and latitude; pyproj
\* decides the numbers, and an exception of it skips the chunk
Transform ==
    /\ pc = "transform"
    /\ \/ /\ faults < MaxFaults
          /\ faults' = faults + 1
          /\ Continue(<<Printed("Coordinate transform failed")>>)
       \/ /\ \E lon \in Lons, lat \in Lats :
                loc' = [wgs84_lon |-> lon, wgs84_lat |-> lat]
          /\ pc' = "geocode"
          /\ UNCHANGED <<i, events, faults>>
    /\ UNCHANGED <<grid, chunks, cache, reports, policy_suggestions,
                   chunk_populations, chunk_livability, ollama_ok, unit>>

\* lines 149-150: resolve the place name; an exception leaving
\* get_placename_from_coords leaves the script
Geocode ==
    /\ pc = "geocode"
    /\ \E net \in Answers(NominalNet, NetOutcomes \ {NominalNet}) :
          LET hit == GeoKey(loc.wgs84_lon, loc.wgs84_lat) \in DOMAIN cache
              r == GetPlacenameFromCoords(loc.wgs84_lon, loc.wgs84_lat, cache, net)
          IN  \* on a hit the service is not asked
              /\ hit => net = NominalNet
              /\ faults' = FaultsAfter(net, NominalNet)
              /\ cache' = r.cache
              /\ IF r.raised
                 THEN /\ pc' = "crashed"
                      /\ events' = events \o r.ev \o <<Raise(r.exc)>>
                      /\ UNCHANGED loc
                 ELSE /\ pc' = "summary"
                      /\ events' = events \o r.ev \o <<Step("place", i + 1)>>
                      /\ loc' = [wgs84_lon |-> loc.wgs84_lon, wgs84_lat |-> loc.wgs84_lat,
                                 chunk_placename |-> r.val]
    /\ UNCHANGED <<grid, chunks, i, reports, policy_suggestions,
                   chunk_populations, chunk_livability, ollama_ok, unit>>

\* lines 152-160: the summary, its CSV, the chunk id, the population record
Summary ==
    /\ pc = "summary"
    /\ IF "PopEst2023" \notin grid.columns
       THEN /\ Continue(<<Printed("Skipping chunk missing PopEst2023.")>>)
            /\ UNCHANGED chunk_populations
       ELSE /\ loc' = [chunk_placename |-> loc.chunk_placename,
                       csv_text |-> CsvText(chunks[i + 1]),
                       chunk_id |-> ChunkId(loc.chunk_placename, i + 1)]
            /\ chunk_populations' =
                  Append(chunk_populations,
                         [Placename |-> ChunkId(loc.chunk_placename, i + 1),
                          Population |-> SumPop(chunks[i + 1])])
            /\ events' = Append(events, Step("summary", i + 1))
            /\ pc' = "analysis"
            /\ UNCHANGED i
    /\ UNCHANGED <<grid, chunks, cache, reports, policy_suggestions,
                   chunk_livability, ollama_ok, faults, unit>>

\* the answers open to ollama.chat; without the backend it is not called
ChatAnswers(kind) ==
    IF ollama_ok THEN Answers(NominalChat(kind), OtherChats(kind)) ELSE {NominalChat(kind)}

GeneratedNoPause(kind) == <<[e |-> "generate", kind |-> kind, chunk |-> i + 1]>>

\* generate_text(...) of chunk i+1, then time.sleep(2) (lines 166-168,
\* 173-175, 180 and 201)
Generated(kind) == <<[e |-> "generate", kind |-> kind, chunk |-> i + 1],
                     [e |-> "sleep", secs |-> 2]>>

\* lines 163-168
GenAnalysis ==
    /\ pc = "analysis"
    /\ \E call \in ChatAnswers("analysis") :
          LET r == GenerateText(AnalysisPrompt(loc.chunk_placename, loc.csv_text),
                                ollama_ok, call)
          IN  /\ faults' = FaultsAfter(call, NominalChat("analysis"))
              /\ IF r.raised
                 THEN /\ pc' = "crashed"
                      /\ events' = Append(events, Raise(r.exc))
                      /\ UNCHANGED reports
                 ELSE /\ reports' = Append(reports, <<i + 1, loc.chunk_placename, r.val>>)
                      /\ events' = events \o Generated("analysis")
                      /\ pc' = "policy"
    /\ UNCHANGED <<grid, chunks, i, loc, cache, policy_suggestions,
                   chunk_populations, chunk_livability, ollama_ok, unit>>

\* lines 170-175
GenPolicy ==
    /\ pc = "policy"
    /\ \E call \in ChatAnswers("policy") :
          LET r == GenerateText(PolicyPrompt(loc.chunk_placename, loc.csv_text),
                                ollama_ok, call)
          IN  /\ faults' = FaultsAfter(call, NominalChat("policy"))
              /\ IF r.raised
                 THEN /\ pc' = "crashed"
                      /\ events' = Append(events, Raise(r.exc))
                      /\ UNCHANGED policy_suggestions
                 ELSE /\ policy_suggestions' =
                            Append(policy_suggestions, <<i + 1, loc.chunk_placename, r.val>>)
                      /\ events' = events \o Generated("policy")
                      /\ pc' = "livability"
    /\ UNCHANGED <<grid, chunks, i, loc, cache, reports,
                   chunk_populations, chunk_livability, ollama_ok, unit>>

\* lines 177-201
GenLivability ==
    /\ pc = "livability"
    /\ \E call \in ChatAnswers("livability") :
          LET r == GenerateText(LivabilityPrompt(loc.csv_text), ollama_ok, call)
              cleaned_score_text == CleanLlmOutput(r.val)
              score == ExtractScore(cleaned_score_text)
          IN  /\ faults' = FaultsAfter(call, NominalChat("livability"))
              /\ IF r.raised
                 THEN /\ pc' = "crashed"
                      /\ events' = Append(events, Raise(r.exc))
                      /\ UNCHANGED <<chunk_livability, i, loc>>
                 ELSE /\ chunk_livability' =
                            Append(chunk_livability,
                                   [Placename |-> loc.chunk_id, Livability |-> score])
                      /\ events' = events \o Generated("livability")
                      /\ i' = i + 1
                      /\ loc' = None
                      /\ pc' = "loop"
    /\ UNCHANGED <<grid, chunks, cache, reports, policy_suggestions,
                   chunk_populations, ollama_ok, unit>>

\* lines 203-356: the charts and the report. The texts of the report pages
\* are cleaned here, at render time (lines 330 and 340).
Assemble ==
    /\ pc = "assemble"
    /\ loc' = [report_pages |->
                  [j \in 1..Len(reports) |->
                      <<reports[j][1], reports[j][2], CleanLlmOutput(reports[j][3])>>],
               policy_pages |->
                  [j \in 1..Len(policy_suggestions) |->
                      <<policy_suggestions[j][1], policy_suggestions[j][2],
                        CleanLlmOutput(policy_suggestions[j][3])>>]]
    /\ events' = Append(events, Printed("--- Generating PDF Report ---"))
    /\ pc' = "done"
    /\ UNCHANGED <<grid, chunks, i, cache, reports, policy_suggestions,
                   chunk_populations, chunk_livability, ollama_ok, faults, unit>>

Next ==
    \/ Load
    \/ FilterColumns
    \/ CheckCrs
    \/ Split
    \/ LoopHead
    \/ Centroid
    \/ Transform
    \/ Geocode
    \/ Summary
    \/ GenAnalysis
    \/ GenPolicy
    \/ GenLivability
    \/ Assemble

Spec == Init /\ [][Next]_vars

\* C2: split_dataframe(D, k) returns exactly ceil(|D|/k) batches whose
\* concatenation is D in order; every record is in exactly one batch, every
\* batch has at most k records, only the last may have fewer than k, no batch
\* is empty and an empty D gives no batch.
C2_SplitPartitions ==
    (unit.fn = "split_dataframe" /\ unit.done) =>
        LET D == unit.df
            k == unit.chunk_size
            out == unit.ret
            m == Len(out)
        IN  /\ (m - 1) * k < Len(D)
            /\ Len(D) <= m * k
            /\ Flatten(out) = D
            /\ \A r \in 1..Len(D) :
                  Cardinality({bj \in {<<b, j>> : b \in 1..m, j \in 1..k} :
                                 /\ bj[2] <= Len(out[bj[1]])
                                 /\ out[bj[1]][bj[2]].idx = r}) = 1
            /\ \A b \in 1..m :
                  /\ Len(out[b]) >= 1
                  /\ Len(out[b]) <= k
                  /\ (b < m => Len(out[b]) = k)
            /\ (D = <<>> => out = <<>>)

\* a dataset whose size is no multiple of the chunk size has been split
C2_Witness ==
    /\ unit.fn = "split_dataframe"
    /\ unit.done
    /\ Len(unit.df) = 5
    /\ unit.chunk_size = 2
    /\ Len(unit.ret) = 3
    /\ Len(unit.ret[3]) = 1

----------------------------------------------------------------------------
(* Claims about generate_text, the score extraction and clean_llm_output *)

\* the first line of the prompt that is not blank, or the empty text
IsFirstNonBlank(prompt, L) ==
    LET lines == SplitLines(prompt)
    IN  \/ /\ \A j \in 1..Len(lines) : \A t \in 1..Len(lines[j]) : IsSpace(lines[j][t])
           /\ L = <<>>
        \/ \E j \in 1..Len(lines) :
              /\ \E t \in 1..Len(lines[j]) : ~IsSpace(lines[j][t])
              /\ \A q \in 1..(j - 1) : \A t \in 1..Len(lines[q]) : IsSpace(lines[q][t])
              /\ L = lines[j]

\* C7: generate_text never raises. With no backend it returns "[LLM disabled] "
\* followed by the first non-blank line of the prompt cut to 200 characters,
\* plus "..." only when that line was longer than 200; with a backend whose
\* call fails it returns the error marker holding the error's description;
\* otherwise it returns the response text (the message's content when the
\* response is a dict with a message dict holding one, else str(resp)).
C7_GenerateNeverRaises ==
    (unit.fn = "generate_text" /\ unit.done) =>
        /\ ~unit.ret.raised
        /\ ~unit.ok =>
              \E L \in Range0(SplitLines(unit.prompt)) \cup {<<>>} :
                  /\ IsFirstNonBlank(unit.prompt, L)
                  /\ unit.ret.val[1] = W("[LLM disabled] ", 15)
                  /\ StrLen(unit.ret.val) =
                        15 + Min(StrLen(L), 200) + (IF StrLen(L) > 200 THEN 3 ELSE 0)
                  /\ LET body == SubSeq(unit.ret.val, 2, Len(unit.ret.val))
                     IN  IF StrLen(L) > 200
                         THEN body = SliceTo(L, 200) \o <<W("...", 3)>>
                         ELSE body = L
        /\ (unit.ok /\ unit.call.raises) =>
              unit.ret.val = <<W("[Error generating text: ", 24)>> \o unit.call.exc.msg
                             \o <<Ch("]")>>
        /\ (unit.ok /\ ~unit.call.raises) =>
              unit.ret.val = IF unit.call.resp.shape = "dict_message"
                                /\ unit.call.resp.has_content
                             THEN unit.call.resp.content
                             ELSE unit.call.resp.str

\* the stub of a prompt whose first non-blank line, its second line, is longer
\* than 200 characters has been returned
C7_Witness ==
    /\ unit.fn = "generate_text"
    /\ unit.done
    /\ ~unit.ok
    /\ unit.prompt = <<SP, LF, W("Based ONLY on", 199), Ch("7"), Ch("2")>>
    /\ unit.ret.val = <<W("[LLM disabled] ", 15), W("Based ONLY on", 199), Ch("7"),
                        W("...", 3)>>

\* the maximal digit runs of a text, as pairs <<first, last>> of positions
MaximalDigitRuns(text) ==
    { r \in (1..Len(text)) \X (1..Len(text)) :
        /\ r[1] <= r[2]
        /\ \A j \in r[1]..r[2] : text[j].c \in Digits
        /\ (r[1] > 1 => text[r[1] - 1].c \notin Digits)
        /\ (r[2] < Len(text) => text[r[2] + 1].c \notin Digits) }

InnerOf(text, q) ==
    LET start == Find(text, <<ContentEq, q>>) + 2
    IN  SubSeq(text, start, RFind(text, <<q, ThinkingNone>>, start) - 1)

\* the wrapper with quote q is there and well formed: an opener, an end
\* marker after it, and an inner text that unescapes
WrapperWellFormed(text, q) ==
    /\ Contains(text, <<ContentEq, q>>)
    /\ RFind(text, <<q, ThinkingNone>>, Find(text, <<ContentEq, q>>) + 2) # 0
    /\ DecodeEscapes(InnerOf(text, q), TRUE).ok

\* C10: clean_llm_output returns its input unchanged when the wrapper is
\* absent or malformed, and when the wrapper is present it returns only the
\* text between the opener and the end marker with the literal escape
\* sequences decoded (and nothing else changed).
C10_CleanStripsWrapper ==
    (unit.fn = "clean_llm_output" /\ unit.done) =>
        IF ~WrapperWellFormed(unit.text, DQ) /\ ~WrapperWellFormed(unit.text, SQ)
        THEN unit.ret = unit.text
        ELSE \E q \in {DQ, SQ} :
                /\ WrapperWellFormed(unit.text, q)
                /\ unit.ret = DecodeEscapes(InnerOf(unit.text, q), TRUE).val

\* the same with the texts that hold a character outside ASCII left out
CleanStripsWrapperAscii ==
    (\A j \in 1..Len(unit.text) : unit.text[j] # NonAscii) => C10_CleanStripsWrapper

----------------------------------------------------------------------------
(* Claims about get_placename_from_coords *)

GeoCalls == IF unit.fn = "get_placename_from_coords" THEN unit.calls ELSE <<>>

\* v rounded to 3 decimals is k thousandths (v counts 0.0001 degrees)
RoundsTo(v, k) == 10 * k - 5 < v /\ v < 10 * k + 5

\* the two calls have one GeoKey
SameGeoKey(a, b) ==
    /\ \E k \in ((a.lon \div 10) - 1)..((a.lon \div 10) + 1) : RoundsTo(a.lon, k) /\ RoundsTo(b.lon, k)
    /\ \E k \in ((a.lat \div 10) - 1)..((a.lat \div 10) + 1) : RoundsTo(a.lat, k) /\ RoundsTo(b.lat, k)

Requests(call) == {j \in 1..Len(call.ev) : call.ev[j].e = "request"}

Sleeps(call) == {j \in 1..Len(call.ev) : call.ev[j].e = "sleep" /\ call.ev[j].secs = 1}

\* the call asked the service and got a place name out of the answer
Succeeded(call) == Requests(call) # {} /\ ~call.raised /\ call.net.at = "none"

\* C3: once a resolution for a GeoKey has succeeded, every later call whose
\* coordinates round to the same GeoKey returns that same label and issues
\* no network call; a cache entry is never overwritten or removed.
C3_CacheHitAfterSuccess ==
    /\ \A a \in 1..Len(GeoCalls) : \A b \in (a + 1)..Len(GeoCalls) :
          (Succeeded(GeoCalls[a]) /\ SameGeoKey(GeoCalls[a], GeoCalls[b])) =>
              /\ Requests(GeoCalls[b]) = {}
              /\ ~GeoCalls[b].raised
              /\ GeoCalls[b].val = GeoCalls[a].val
    /\ \A a \in 1..Len(GeoCalls) :
          \A k \in DOMAIN GeoCalls[a].before :
              /\ k \in DOMAIN GeoCalls[a].after
              /\ GeoCalls[a].after[k] = GeoCalls[a].before[k]

\* a success at 174.7761 is followed by a call at 174.7764, same GeoKey,
\* served with the same label and no request
C3_Witness ==
    /\ Len(GeoCalls) >= 2
    /\ GeoCalls[1].lon = 1747761
    /\ GeoCalls[2].lon = 1747764
    /\ Succeeded(GeoCalls[1])
    /\ GeoCalls[1].val = Wellington
    /\ GeoCalls[2].val = Wellington
    /\ GeoCalls[2].ev = <<>>

\* the request of the call failed in transport or with an HTTP error status
TransportFailure(call) ==
    /\ Requests(call) # {}
    /\ call.net.at \in {"get", "raise_for_status"}

\* C4: when the request fails with a network/transport failure the call
\* returns "Error Region (<lat>,<lon>)" without raising and leaves the cache
\* unchanged, so the next call for the same GeoKey issues a new request.
C4_FailureNotCached ==
    \A a \in 1..Len(GeoCalls) :
        TransportFailure(GeoCalls[a]) =>
            /\ ~GeoCalls[a].raised
            /\ GeoCalls[a].val = <<W("Error Region (", 14)>> \o Fmt2(GeoCalls[a].lat)
                                 \o <<Ch(",")>> \o Fmt2(GeoCalls[a].lon) \o <<Ch(")")>>
            /\ GeoCalls[a].after = GeoCalls[a].before
            /\ (a < Len(GeoCalls) /\ SameGeoKey(GeoCalls[a], GeoCalls[a + 1])) =>
                  Requests(GeoCalls[a + 1]) # {}

\* a failed resolution is followed by a successful, memoized one of the same GeoKey
C4_Witness ==
    /\ Len(GeoCalls) >= 2
    /\ TransportFailure(GeoCalls[1])
    /\ GeoCalls[1].val = <<W("Error Region (", 14), Ch("-"), Ch("4"), Ch("1"), Ch("."),
                           Ch("2"), Ch("9"), Ch(","), Ch("1"), Ch("7"), Ch("4"), Ch("."),
                           Ch("7"), Ch("8"), Ch(")")>>
    /\ SameGeoKey(GeoCalls[1], GeoCalls[2])
    /\ Succeeded(GeoCalls[2])
    /\ DOMAIN cache # {}

\* everything the calls did, in order
RECURSIVE AllEv(_)
AllEv(calls) == IF calls = <<>> THEN <<>> ELSE Head(calls).ev \o AllEv(Tail(calls))

\* C5: every call that makes a network attempt sleeps 1.0 s before it returns
\* or exits, whether the attempt succeeded, failed with a request error or
\* ended in another exception; a call served from the cache does not sleep.
\* So between any two network attempts there is a 1.0 s sleep.
C5_SleepAfterEveryAttempt ==
    /\ \A a \in 1..Len(GeoCalls) :
          LET call == GeoCalls[a]
          IN  /\ Requests(call) # {} =>
                    /\ Len(call.ev) \in Sleeps(call)
                    /\ \A j \in Requests(call) : j < Len(call.ev)
              /\ Requests(call) = {} => Sleeps(call) = {}
    /\ LET ev == AllEv(GeoCalls)
       IN  \A p \in 1..Len(ev) : \A q \in (p + 1)..Len(ev) :
              (ev[p].e = "request" /\ ev[q].e = "request") =>
                  \E m \in (p + 1)..(q - 1) : ev[m].e = "sleep" /\ ev[m].secs = 1

\* a success, then a cache hit that did not sleep, then an attempt that ended
\* in an exception and slept all the same
C5_Witness ==
    /\ Len(GeoCalls) = 3
    /\ Succeeded(GeoCalls[1])
    /\ GeoCalls[2].ev = <<>>
    /\ GeoCalls[3].raised
    /\ Sleeps(GeoCalls[3]) # {}

-----------------------------------------------------------------------------
(* The run of the script *)

\* the chunk a printed line belongs to: the one of the last
\* "--- Processing Chunk" line before it
ChunkOfEvent(k) ==
    LET heads == {m \in 1..k : events[m].e = "print"
                               /\ events[m].what = "--- Processing Chunk"}
    IN  IF heads = {} THEN 0
        ELSE events[CHOOSE m \in heads : \A m2 \in heads : m2 <= m].chunk

TransformFailed(n) ==
    \E k \in 1..Len(events) :
        /\ events[k].e = "print"
        /\ events[k].what = "Coordinate transform failed"
        /\ ChunkOfEvent(k) = n

NoNumber(chunk, col) ==
    \A j \in 1..Len(chunk) : (IF col = "x" THEN chunk[j].x ELSE chunk[j].y) = NaN

\* the batches the loop passes over without a record
SkippedBatch(n) ==
    \/ chunks[n] = <<>>
    \/ {"CENTROID_X", "CENTROID_Y", "PopEst2023"} \ grid.columns # {}
    \/ NoNumber(chunks[n], "x")
    \/ NoNumber(chunks[n], "y")
    \/ TransformFailed(n)

\* C1: whenever the loop stands between two batches, and after it, the four
\* accumulators have the same length; their j-th entries belong to the same
\* batch and carry its index i+1 (in the tuple, and in the "(Chunk i+1)" of
\* the Placename); the indexes ascend; and the batches recorded are exactly
\* the batches gone through that were not skipped.
C1_OneRecordPerBatch ==
    pc \in {"loop", "assemble", "done"} =>
        /\ Len(policy_suggestions) = Len(reports)
        /\ Len(chunk_populations) = Len(reports)
        /\ Len(chunk_livability) = Len(reports)
        /\ \A j \in 1..Len(reports) :
              /\ policy_suggestions[j][1] = reports[j][1]
              /\ policy_suggestions[j][2] = reports[j][2]
              /\ chunk_populations[j].Placename = ChunkId(reports[j][2], reports[j][1])
              /\ chunk_livability[j].Placename = ChunkId(reports[j][2], reports[j][1])
              /\ chunk_populations[j].Population = SumPop(chunks[reports[j][1]])
        /\ \A j, k \in 1..Len(reports) : j < k => reports[j][1] < reports[k][1]
        /\ {reports[j][1] : j \in 1..Len(reports)}
              = {n \in 1..i : ~SkippedBatch(n)}

\* three batches, the second without a centroid: the run is through, with
\* records for batches 1 and 3
C1_Witness ==
    /\ pc = "done"
    /\ Len(chunks) = 3
    /\ NoNumber(chunks[2], "x")
    /\ Len(reports) = 2
    /\ Len(chunk_livability) = 2
    /\ <<reports[1][1], reports[2][1]>> = <<1, 3>>
    /\ <<policy_suggestions[1][1], policy_suggestions[2][1]>> = <<1, 3>>

\* C6: no answer of the geocoding service or of the text backend makes an
\* exception leave the batch loop.
C6_NoServiceOutcomeAborts == ~(pc = "crashed" /\ Len(chunks) > 0)

SplitCalled == \E k \in 1..Len(events) : events[k].e = "split_dataframe"

NoBatchProcessed ==
    /\ i = 0
    /\ reports = <<>> /\ policy_suggestions = <<>>
    /\ chunk_populations = <<>> /\ chunk_livability = <<>>
    /\ \A k \in 1..Len(events) :
          ~(events[k].e = "print" /\ events[k].what = "--- Processing Chunk")

Loaded == pc \notin {"load", "exited"}

MissingAttribute == Loaded /\ expected_cols \ grid.columns # {}

StepRank(ev) ==
    CASE ev.e = "centroid" -> 1
      [] ev.e = "place" -> 2
      [] ev.e = "summary" -> 3
      [] ev.e = "generate" /\ ev.kind = "analysis" -> 4
      [] ev.e = "generate" /\ ev.kind = "policy" -> 5
      [] ev.e = "generate" /\ ev.kind = "livability" -> 6
      [] OTHER -> 0

IsStep(ev) == StepRank(ev) > 0

IsGenerationOrPause(ev) == ev.e = "generate" \/ (ev.e = "sleep" /\ ev.secs = 2)

Generations == {k \in 1..Len(events) : events[k].e = "generate"}

\* C11: the steps of a run, in the order they happen, go batch by batch and
\* within a batch in the order centroid, place, summary, analysis, policy,
\* livability, none left out before a later one; a batch with a record went
\* through to livability; and between two consecutive calls of generate_text
\* of a run lies one pause of 2 seconds.
C11_StepOrderAndPauses ==
    LET steps == SelectSeq(events, IsStep)
        gens == SelectSeq(events, IsGenerationOrPause)
    IN  /\ steps # <<>> => StepRank(steps[1]) = 1
        /\ \A j \in 1..(Len(steps) - 1) :
              \/ /\ steps[j + 1].chunk = steps[j].chunk
                 /\ StepRank(steps[j + 1]) = StepRank(steps[j]) + 1
              \/ /\ steps[j + 1].chunk > steps[j].chunk
                 /\ StepRank(steps[j + 1]) = 1
        /\ \A j \in 1..Len(chunk_livability) :
              \E k \in 1..Len(steps) :
                  StepRank(steps[k]) = 6 /\ steps[k].chunk = reports[j][1]
        /\ gens # <<>> => gens[1].e = "generate"
        /\ \A j \in 1..(Len(gens) - 1) : gens[j].e # gens[j + 1].e

\* two batches recorded with the backend on, the first analysis having come
\* back as the error marker
C11_Witness ==
    /\ pc = "done"
    /\ ollama_ok
    /\ Len(chunk_livability) = 2
    /\ Head(reports[1][3]) = ErrorMarkerPrefix
    /\ Cardinality(Generations) = 6

====
